---- MODULE Spec2Model ----
(***************************************************************************)
(* EAS substreams module: the schema parsers (src/schema_parser.rs and the *)
(* one inside src/lib.rs), the token-to-JSON projections and the block     *)
(* handler map_events / map_eas_events of src/lib.rs.                      *)
(*                                                                         *)
(* Text (Rust &str / String) is a sequence of one-character strings, so    *)
(* that trimming, prefix tests, splitting and hex / decimal formatting are *)
(* computed character by character as the code does.  Only ASCII is used,  *)
(* so byte offsets and char indices coincide.  Rust's 0-based half-open    *)
(* slice s[a..b] is SubSeq(s, a + 1, b).                                   *)
(***************************************************************************)
EXTENDS Integers, Sequences, FiniteSets, TLC

VARIABLES
    schemaText,  \* SpecParse: the schema string handed to the parsers
    ppc,         \* SpecParse: "input" | "parsed" | "lib_parsed"
    parsed,      \* SpecParse: what the parser call produced
    fieldType,   \* SpecProject: the FieldType of the projected field
    tokenIn,     \* SpecProject: the decoded Token paired with it
    jpc,         \* SpecProject: "input" | "projected" | "leaf" | "hex"
    json,        \* SpecProject: what the projection call produced
    blk,         \* Spec: the block, a sequence of receipts (transaction + logs)
    txi,         \* Spec: the receipt flat_map is at (1-based)
    lgi,         \* Spec: the log of that receipt filter_map is at (1-based)
    events,      \* Spec: the EasAttested records collected so far
    calls,       \* Spec: the eth_calls issued so far, in order
    decodeErrs,  \* Spec: uids for which "Failed to decode data" was logged
    pc,          \* Spec: "running" | "returned" | "panicked"
    ret          \* Spec: what map_events gave its caller

parseVars == <<schemaText, ppc, parsed>>
projectVars == <<fieldType, tokenIn, jpc, json>>
blockVars == <<blk, txi, lgi, events, calls, decodeErrs, pc, ret>>
vars == <<parseVars, projectVars, blockVars>>

----------------------------------------------------------------------------
(* Bounds of the model *)

\* longest field list (number of comma separated declarations) of an input schema
MaxFields == 2

\* most slots of an input tuple (fields or values) and elements of an input array
MaxElems == 2

\* longest input byte string (dynamic or fixed bytes)
MaxBytes == 2

\* most logs of an input block, all receipts together
MaxLogs == 3

\* most receipts (transactions) of an input block
MaxTx == 2

----------------------------------------------------------------------------
(* Text helpers: str::trim, starts_with, ends_with, strip_prefix,          *)
(* split_whitespace, usize::from_str                                       *)

SP == <<" ">>
COMMA == <<",">>

kw_tuple_open == <<"t", "u", "p", "l", "e", "(">>
kw_array == <<"[", "]">>
kw_bytes == <<"b", "y", "t", "e", "s">>
kw_uint == <<"u", "i", "n", "t">>
kw_int == <<"i", "n", "t">>
kw_bool == <<"b", "o", "o", "l">>
kw_string == <<"s", "t", "r", "i", "n", "g">>
kw_address == <<"a", "d", "d", "r", "e", "s", "s">>
kw_field == <<"f", "i", "e", "l", "d">>
kw_bytes32 == <<"b", "y", "t", "e", "s", "3", "2">>
kw_uint8 == <<"u", "i", "n", "t", "8">>
kw_uint16 == <<"u", "i", "n", "t", "1", "6">>
kw_uint32 == <<"u", "i", "n", "t", "3", "2">>
kw_uint64 == <<"u", "i", "n", "t", "6", "4">>
kw_uint128 == <<"u", "i", "n", "t", "1", "2", "8">>
kw_uint256 == <<"u", "i", "n", "t", "2", "5", "6">>

IsWhitespace(c) == c = " "

RECURSIVE TrimStart(_)
TrimStart(s) ==
    IF s # <<>> /\ IsWhitespace(Head(s)) THEN TrimStart(Tail(s)) ELSE s

RECURSIVE TrimEnd(_)
TrimEnd(s) ==
    IF s # <<>> /\ IsWhitespace(s[Len(s)])
    THEN TrimEnd(SubSeq(s, 1, Len(s) - 1))
    ELSE s

Trim(s) == TrimEnd(TrimStart(s))

StartsWith(s, p) == Len(s) >= Len(p) /\ SubSeq(s, 1, Len(p)) = p

EndsWith(s, p) ==
    Len(s) >= Len(p) /\ SubSeq(s, Len(s) - Len(p) + 1, Len(s)) = p

\* str::strip_prefix: Some(rest) or None
StripPrefix(s, p) ==
    IF StartsWith(s, p)
    THEN [some |-> TRUE, rest |-> SubSeq(s, Len(p) + 1, Len(s))]
    ELSE [some |-> FALSE, rest |-> <<>>]

\* the first maximal run of non-whitespace characters of s, s having no
\* leading whitespace
RECURSIVE FirstWord(_)
FirstWord(s) ==
    IF s = <<>> \/ IsWhitespace(Head(s))
    THEN <<>>
    ELSE <<Head(s)>> \o FirstWord(Tail(s))

\* str::split_whitespace, collected: the non-empty whitespace separated words
RECURSIVE SplitWhitespace(_)
SplitWhitespace(s) ==
    LET t == TrimStart(s) IN
    IF t = <<>>
    THEN <<>>
    ELSE LET w == FirstWord(t) IN
         <<w>> \o SplitWhitespace(SubSeq(t, Len(w) + 1, Len(t)))

Digits == <<"0", "1", "2", "3", "4", "5", "6", "7", "8", "9">>

IsDigit(c) == \E d \in 1..10 : Digits[d] = c

DigitVal(c) == (CHOOSE d \in 1..10 : Digits[d] = c) - 1

\* the value of a digit string
RECURSIVE DigitsValue(_, _)
DigitsValue(s, acc) ==
    IF s = <<>>
    THEN acc
    ELSE DigitsValue(Tail(s), acc * 10 + DigitVal(Head(s)))

\* str::parse::<usize>(): an optional leading '+', then one or more decimal
\* digits; anything else (empty, a sign alone, a non-digit) is Err.  The
\* overflow error needs ten or more digits; the inputs of the model have at
\* most three.
ParseUsize(s) ==
    LET body == IF s # <<>> /\ Head(s) = "+" THEN Tail(s) ELSE s IN
    IF body = <<>> \/ \E i \in 1..Len(body) : ~IsDigit(body[i])
    THEN [ok |-> FALSE, v |-> 0]
    ELSE [ok |-> TRUE, v |-> DigitsValue(body, 0)]

----------------------------------------------------------------------------
(* Results.  A Rust panic (panic!, unwrap on None, expect on Err) unwinds  *)
(* through every caller: each operator passes a Panic it gets on.          *)

Ok(v) == [r |-> "Ok", v |-> v]
Err(what, tok) == [r |-> "Err", what |-> what, tok |-> tok]
Panic == [r |-> "Panic"]

\* ethabi::ParamType
PT_Bool == [t |-> "Bool"]
PT_String == [t |-> "String"]
PT_Address == [t |-> "Address"]
PT_Bytes == [t |-> "Bytes"]
PT_Uint(n) == [t |-> "Uint", n |-> n]
PT_Int(n) == [t |-> "Int", n |-> n]
PT_FixedBytes(n) == [t |-> "FixedBytes", n |-> n]
PT_Tuple(ts) == [t |-> "Tuple", types |-> ts]
PT_Array(inner) == [t |-> "Array", inner |-> inner]

\* schema_parser::FieldType
Primitive(p) == [k |-> "Primitive", p |-> p]
Tuple(fields) == [k |-> "Tuple", fields |-> fields]
Array(inner) == [k |-> "Array", inner |-> inner]

\* a (type, name) pair of a parsed field list
Field(ft, name) == [ft |-> ft, name |-> name]

----------------------------------------------------------------------------
(* The splitting loop, which both parse_schema_fields have character for   *)
(* character: depth counts '(' up and ')' down, and a ',' seen while       *)
(* depth = 0 ends the field schema[start..i] and sets start = i + 1; after *)
(* the loop the rest schema[start..] is a last field when                  *)
(* start < schema.len().                                                   *)

\* the loop's depth after the first i characters
Depth(schema, i) ==
    Cardinality({m \in 1..i : schema[m] = "("})
      - Cardinality({m \in 1..i : schema[m] = ")"})

\* the 1-based positions of the commas the loop splits at
SplitPoints(schema) ==
    {i \in 1..Len(schema) : schema[i] = "," /\ Depth(schema, i) = 0}

RECURSIVE SortedSeq(_)
SortedSeq(S) ==
    IF S = {} THEN <<>>
    ELSE LET m == CHOOSE x \in S : \A y \in S : x <= y IN
         <<m>> \o SortedSeq(S \ {m})

\* the field substrings in order: one per split comma, then the last field
FieldPieces(schema) ==
    LET cs == SortedSeq(SplitPoints(schema))
        start(n) == IF n = 1 THEN 0 ELSE cs[n - 1]
        last == IF cs = <<>> THEN 0 ELSE cs[Len(cs)]
        cut == [n \in 1..Len(cs) |-> SubSeq(schema, start(n) + 1, cs[n] - 1)]
    IN  IF last < Len(schema)
        THEN Append(cut, SubSeq(schema, last + 1, Len(schema)))
        ELSE cut

----------------------------------------------------------------------------
(* src/schema_parser.rs: FieldType::from_str, parse_field,                 *)
(* parse_schema_fields                                                     *)

\* the primitive branch of from_str: Ok(ParamType) or Err
PrimitiveParamType(typ) ==
    LET u == StripPrefix(typ, kw_uint)
        i == StripPrefix(typ, kw_int)
        b == StripPrefix(typ, kw_bytes)
    IN  IF typ = kw_bytes THEN Ok(PT_Bytes)
        ELSE IF u.some THEN
            LET n == ParseUsize(u.rest) IN
            IF n.ok THEN Ok(PT_Uint(n.v)) ELSE Err("Invalid uint size", u.rest)
        ELSE IF i.some THEN
            LET n == ParseUsize(i.rest) IN
            IF n.ok THEN Ok(PT_Int(n.v)) ELSE Err("Invalid int size", i.rest)
        ELSE IF b.some THEN
            LET n == ParseUsize(b.rest) IN
            IF n.ok THEN Ok(PT_FixedBytes(n.v))
            ELSE Err("Invalid bytes size", b.rest)
        ELSE IF typ = kw_bool THEN Ok(PT_Bool)
        ELSE IF typ = kw_string THEN Ok(PT_String)
        ELSE IF typ = kw_address THEN Ok(PT_Address)
        ELSE Err("Unsupported type", typ)

RECURSIVE from_str(_), parse_field(_), parse_schema_fields(_)

\* FieldType::from_str: Ok(FieldType), Err(String), or the panic of a nested
\* parse_schema_fields
from_str(typ0) ==
    LET typ == Trim(typ0) IN
    IF StartsWith(typ, kw_tuple_open) /\ EndsWith(typ, <<")">>)
    THEN LET inner == parse_schema_fields(SubSeq(typ, 7, Len(typ) - 1)) IN
         IF inner.r = "Panic" THEN Panic ELSE Ok(Tuple(inner.v))
    ELSE IF EndsWith(typ, kw_array)
    THEN LET e == from_str(SubSeq(typ, 1, Len(typ) - 2)) IN
         IF e.r = "Ok" THEN Ok(Array(e.v)) ELSE e
    ELSE LET p == PrimitiveParamType(typ) IN
         IF p.r = "Ok" THEN Ok(Primitive(p.v)) ELSE p

\* the reverse scan of parse_field.  When the scan looks at position j
\* (1-based) it has added 1 for every ')' and subtracted 1 for every '(' to
\* the right of j; it stops at the first, that is the rightmost, space it
\* sees with inner_depth = 0.  The result is type_end: that space's 0-based
\* index, or the initial 0 when the scan finds none.
InnerDepth(field, j) ==
    Cardinality({m \in (j + 1)..Len(field) : field[m] = ")"})
      - Cardinality({m \in (j + 1)..Len(field) : field[m] = "("})

TypeEnd(field) ==
    LET stops == {j \in 1..Len(field) :
                     field[j] = " " /\ InnerDepth(field, j) = 0}
    IN  IF stops = {} THEN 0
        ELSE (CHOOSE j \in stops : \A m \in stops : m <= j) - 1

\* parse_field: Ok((FieldType, name)), or Panic when from_str fails (expect)
parse_field(field) ==
    LET type_end == TypeEnd(field)
        typ == IF type_end > 0
               THEN Trim(SubSeq(field, 1, type_end))
               ELSE Trim(field)
        name == IF type_end > 0
                THEN Trim(SubSeq(field, type_end + 1, Len(field)))
                ELSE kw_field
        ft == from_str(typ)
    IN  IF ft.r = "Ok" THEN Ok(Field(ft.v, name)) ELSE Panic

\* parse_schema_fields: Ok(Vec<(FieldType, String)>), or the Panic of the
\* first field that fails
parse_schema_fields(schema) ==
    LET pieces == FieldPieces(schema)
        res == [n \in 1..Len(pieces) |-> parse_field(Trim(pieces[n]))]
    IN  IF \E n \in 1..Len(pieces) : res[n].r = "Panic"
        THEN Panic
        ELSE Ok([n \in 1..Len(pieces) |-> res[n].v])

\* fieldtype_to_paramtype
RECURSIVE fieldtype_to_paramtype(_)
fieldtype_to_paramtype(ft) ==
    IF ft.k = "Primitive" THEN ft.p
    ELSE IF ft.k = "Tuple"
    THEN PT_Tuple([i \in 1..Len(ft.fields) |->
                      fieldtype_to_paramtype(ft.fields[i].ft)])
    ELSE PT_Array(fieldtype_to_paramtype(ft.inner))

----------------------------------------------------------------------------
(* src/lib.rs: parse_schema_fields and its inner parse_type                *)

RECURSIVE lib_parse_type(_), lib_parse_schema_fields(_), lib_ParseField(_)

\* the match of parse_type: a ParamType, or panic!("Unsupported type")
lib_MatchType(typ) ==
    IF typ = kw_bytes32 THEN Ok(PT_FixedBytes(32))
    ELSE IF typ = kw_uint8 THEN Ok(PT_Uint(8))
    ELSE IF typ = kw_uint16 THEN Ok(PT_Uint(16))
    ELSE IF typ = kw_uint32 THEN Ok(PT_Uint(32))
    ELSE IF typ = kw_uint64 THEN Ok(PT_Uint(64))
    ELSE IF typ = kw_uint128 THEN Ok(PT_Uint(128))
    ELSE IF typ = kw_uint256 THEN Ok(PT_Uint(256))
    ELSE IF typ = kw_bool THEN Ok(PT_Bool)
    ELSE IF typ = kw_string THEN Ok(PT_String)
    ELSE IF typ = kw_address THEN Ok(PT_Address)
    ELSE Panic

\* parse_type: Ok(ParamType) or Panic
lib_parse_type(typ0) ==
    LET typ == Trim(typ0) IN
    IF StartsWith(typ, kw_tuple_open) /\ EndsWith(typ, <<")">>)
    THEN LET inner == lib_parse_schema_fields(SubSeq(typ, 7, Len(typ) - 1)) IN
         IF inner.r = "Panic" THEN Panic
         ELSE Ok(PT_Tuple([i \in 1..Len(inner.v) |-> inner.v[i].ft]))
    ELSE IF EndsWith(typ, kw_array)
    THEN LET e == lib_parse_type(SubSeq(typ, 1, Len(typ) - 2)) IN
         IF e.r = "Ok" THEN Ok(PT_Array(e.v)) ELSE Panic
    ELSE lib_MatchType(typ)

\* one field of lib.rs: the first whitespace separated word is the type
\* (unwrap: panic when there is none), the second the name, default "field"
lib_ParseField(field) ==
    LET parts == SplitWhitespace(Trim(field)) IN
    IF parts = <<>> THEN Panic
    ELSE LET ty == lib_parse_type(parts[1])
             name == IF Len(parts) >= 2 THEN parts[2] ELSE kw_field
         IN  IF ty.r = "Ok" THEN Ok(Field(ty.v, name)) ELSE Panic

\* lib.rs parse_schema_fields: Ok(Vec<(ParamType, String)>), or the Panic of
\* the first field that fails
lib_parse_schema_fields(schema) ==
    LET pieces == FieldPieces(schema)
        res == [n \in 1..Len(pieces) |-> lib_ParseField(pieces[n])]
    IN  IF \E n \in 1..Len(pieces) : res[n].r = "Panic"
        THEN Panic
        ELSE Ok([n \in 1..Len(pieces) |-> res[n].v])

----------------------------------------------------------------------------
(* SpecParse: a schema string is drawn from the input set and handed to    *)
(* one of the two parsers.                                                 *)

ty_uint7 == <<"u", "i", "n", "t", "7">>
ty_uint0 == <<"u", "i", "n", "t", "0">>
ty_int264 == <<"i", "n", "t", "2", "6", "4">>
ty_bytes33 == <<"b", "y", "t", "e", "s", "3", "3">>
ty_foo == <<"f", "o", "o">>
ty_tuple_ab ==
    kw_tuple_open \o kw_uint8 \o SP \o <<"a">> \o COMMA \o SP
                  \o kw_uint8 \o SP \o <<"b">> \o <<")">>

\* "tuple(uint8 a, uint8 b) t, uint8 c"
ExampleComma == ty_tuple_ab \o SP \o <<"t">> \o COMMA \o SP
                            \o kw_uint8 \o SP \o <<"c">>

\* "uint8,uint8 b"
ExampleNaming == kw_uint8 \o COMMA \o kw_uint8 \o SP \o <<"b">>

\* the declarations input schemas are assembled from: well formed ones, named
\* and unnamed, and malformed ones (unknown token, invalid widths, unbalanced
\* parentheses, an empty declaration, a three word declaration)
Decls ==
    { kw_uint8,
      kw_uint8 \o SP \o <<"b">>,
      kw_uint8 \o SP \o <<"c">>,
      kw_uint8 \o SP \o SP \o <<"b">>,
      kw_uint8 \o SP \o <<"a">> \o SP \o <<"b">>,
      kw_bool \o SP \o <<"b">>,
      kw_uint8 \o kw_array \o SP \o <<"c">>,
      ty_tuple_ab,
      ty_tuple_ab \o SP \o <<"t">>,
      ty_tuple_ab \o kw_array \o SP \o <<"t">>,
      kw_tuple_open \o ty_tuple_ab \o SP \o <<"t">> \o COMMA \o kw_bool
                    \o <<")">> \o SP \o <<"c">>,
      kw_tuple_open \o kw_uint8 \o SP \o <<"a">>,
      kw_tuple_open \o kw_uint8 \o <<")">> \o <<")">> \o SP \o <<"t">>,
      ty_uint7 \o SP \o <<"b">>,
      ty_uint0,
      ty_int264 \o SP \o <<"c">>,
      ty_bytes33,
      ty_foo \o SP \o <<"b">>,
      <<>> }

Seps == {COMMA, COMMA \o SP}

RECURSIVE Join(_, _)
Join(ds, sep) ==
    IF ds = <<>> THEN <<>>
    ELSE IF Len(ds) = 1 THEN ds[1]
    ELSE ds[1] \o sep \o Join(Tail(ds), sep)

SeqsUpTo(S, n) == UNION {[1..m -> S] : m \in 0..n}

Schemas ==
    { Join(ds, sep) \o tail :
        ds \in SeqsUpTo(Decls, MaxFields), sep \in Seps, tail \in {<<>>, COMMA} }

NotParsed == [r |-> "None"]

\* the variables of a specification that is not running
IdleParse == schemaText = <<>> /\ ppc = "idle" /\ parsed = NotParsed

InitParse ==
    /\ schemaText \in Schemas
    /\ ppc = "input"
    /\ parsed = NotParsed

\* schema_parser::parse_schema_fields(schemaText)
ParseSchema ==
    /\ ppc = "input"
    /\ parsed' = parse_schema_fields(schemaText)
    /\ ppc' = "parsed"
    /\ UNCHANGED schemaText
    /\ UNCHANGED <<projectVars, blockVars>>

\* lib.rs parse_schema_fields(schemaText)
LibParseSchema ==
    /\ ppc = "input"
    /\ parsed' = lib_parse_schema_fields(schemaText)
    /\ ppc' = "lib_parsed"
    /\ UNCHANGED schemaText
    /\ UNCHANGED <<projectVars, blockVars>>


----------------------------------------------------------------------------
(* Tokens (ethabi::Token) and JSON values (serde_json::Value)              *)

Tok_Address(bytes) == [k |-> "Address", bytes |-> bytes]
Tok_FixedBytes(bytes) == [k |-> "FixedBytes", bytes |-> bytes]
Tok_Bytes(bytes) == [k |-> "Bytes", bytes |-> bytes]
Tok_Int(v) == [k |-> "Int", v |-> v]
Tok_Uint(v) == [k |-> "Uint", v |-> v]
Tok_Bool(b) == [k |-> "Bool", b |-> b]
Tok_String(s) == [k |-> "String", s |-> s]
Tok_Array(items) == [k |-> "Array", items |-> items]
Tok_FixedArray(items) == [k |-> "FixedArray", items |-> items]
Tok_Tuple(items) == [k |-> "Tuple", items |-> items]

JNull == [k |-> "Null"]
JBool(b) == [k |-> "Bool", b |-> b]
JString(s) == [k |-> "String", s |-> s]
JArray(a) == [k |-> "Array", a |-> a]
\* o: a function from key (text) to value; serde_json::Map keeps one value
\* per key
JObject(o) == [k |-> "Object", o |-> o]

EmptyMap == <<>>

\* Map::insert: a later insert of the same key replaces the earlier value
MapInsert(o, key, v) ==
    [n \in (DOMAIN o) \cup {key} |-> IF n = key THEN v ELSE o[n]]

HexChars == <<"0", "1", "2", "3", "4", "5", "6", "7",
              "8", "9", "a", "b", "c", "d", "e", "f">>

\* Hex::encode: two lowercase hex characters per byte, high nibble first
RECURSIVE HexEncode(_)
HexEncode(bytes) ==
    IF bytes = <<>> THEN <<>>
    ELSE <<HexChars[(Head(bytes) \div 16) + 1], HexChars[(Head(bytes) % 16) + 1]>>
         \o HexEncode(Tail(bytes))

\* U256::to_string: the decimal digits, no leading zero, "0" for zero
RECURSIVE ToDecimal(_)
ToDecimal(v) ==
    IF v < 10 THEN <<Digits[v + 1]>>
    ELSE ToDecimal(v \div 10) \o <<Digits[(v % 10) + 1]>>

kw_0x == <<"0", "x">>

\* lib.rs bytes_to_hex
bytes_to_hex(bytes) ==
    IF bytes = <<>> THEN <<>> ELSE kw_0x \o HexEncode(bytes)

\* schema_parser.rs token_to_json
RECURSIVE token_to_json(_)
token_to_json(token) ==
    IF token.k = "Address" THEN JString(kw_0x \o HexEncode(token.bytes))
    ELSE IF token.k \in {"FixedBytes", "Bytes"}
    THEN JString(kw_0x \o HexEncode(token.bytes))
    ELSE IF token.k \in {"Int", "Uint"} THEN JString(ToDecimal(token.v))
    ELSE IF token.k = "Bool" THEN JBool(token.b)
    ELSE IF token.k = "String" THEN JString(token.s)
    ELSE \* Array, FixedArray and Tuple all become a JSON array
         JArray([i \in 1..Len(token.items) |-> token_to_json(token.items[i])])

\* lib.rs token_to_json: the same match, arm for arm
RECURSIVE lib_token_to_json(_)
lib_token_to_json(token) ==
    IF token.k = "Address" THEN JString(kw_0x \o HexEncode(token.bytes))
    ELSE IF token.k \in {"FixedBytes", "Bytes"}
    THEN JString(kw_0x \o HexEncode(token.bytes))
    ELSE IF token.k \in {"Int", "Uint"} THEN JString(ToDecimal(token.v))
    ELSE IF token.k = "Bool" THEN JBool(token.b)
    ELSE IF token.k = "String" THEN JString(token.s)
    ELSE JArray([i \in 1..Len(token.items) |->
                    lib_token_to_json(token.items[i])])

Min(a, b) == IF a <= b THEN a ELSE b

\* the insert loop over fields.zip(tokens): pairs 1..n are inserted in order
RECURSIVE InsertAll(_, _, _, _)
InsertAll(obj, names, values, i) ==
    IF i > Min(Len(names), Len(values)) THEN obj
    ELSE InsertAll(MapInsert(obj, names[i], values[i]), names, values, i + 1)

\* a projection that takes a Primitive field with a tuple or array value for
\* a mismatch too
RECURSIVE token_to_json_with_schema_Strict(_, _)
token_to_json_with_schema_Strict(ft, token) ==
    IF ft.k = "Primitive"
    THEN IF token.k \in {"Tuple", "Array"} THEN JNull ELSE token_to_json(token)
    ELSE IF ft.k = "Tuple" /\ token.k = "Tuple"
    THEN LET n == Min(Len(ft.fields), Len(token.items)) IN
         JObject(InsertAll(EmptyMap,
                   [i \in 1..n |-> ft.fields[i].name],
                   [i \in 1..n |->
                       token_to_json_with_schema_Strict(ft.fields[i].ft,
                                                        token.items[i])],
                   1))
    ELSE IF ft.k = "Array" /\ token.k = "Array"
    THEN JArray([i \in 1..Len(token.items) |->
                    token_to_json_with_schema_Strict(ft.inner, token.items[i])])
    ELSE JNull

\* schema_parser.rs token_to_json_with_schema
RECURSIVE token_to_json_with_schema(_, _)
token_to_json_with_schema(ft, token) ==
    IF ft.k = "Primitive" THEN token_to_json(token)
    ELSE IF ft.k = "Tuple" /\ token.k = "Tuple"
    THEN LET n == Min(Len(ft.fields), Len(token.items)) IN
         JObject(InsertAll(EmptyMap,
                   [i \in 1..n |-> ft.fields[i].name],
                   [i \in 1..n |->
                       token_to_json_with_schema(ft.fields[i].ft, token.items[i])],
                   1))
    ELSE IF ft.k = "Array" /\ token.k = "Array"
    THEN JArray([i \in 1..Len(token.items) |->
                    token_to_json_with_schema(ft.inner, token.items[i])])
    ELSE JNull

----------------------------------------------------------------------------
(* SpecProject: a (FieldType, Token) pair is drawn from the input set and  *)
(* projected by token_to_json_with_schema, by token_to_json alone (what    *)
(* lib.rs decode_data applies to every top-level tokenIn), or, for a byte    *)
(* valued tokenIn, formatted by bytes_to_hex.                                *)

\* the length of an address: [u8; 20]
AddressLen == 20

\* EAS_TRACKED_CONTRACT = 0x4200000000000000000000000000000000000021
EAS_TRACKED_CONTRACT ==
    [i \in 1..AddressLen |-> IF i = 1 THEN 66 ELSE IF i = AddressLen THEN 33 ELSE 0]

\* EAS_SCHEMA_REGISTRY_CONTRACT = 0x4200000000000000000000000000000000000020
EAS_SCHEMA_REGISTRY_CONTRACT ==
    [i \in 1..AddressLen |-> IF i = 1 THEN 66 ELSE IF i = AddressLen THEN 32 ELSE 0]

ByteVals == {0, 171, 255}
ByteStrings == SeqsUpTo(ByteVals, MaxBytes)

ByteKinds == {"Address", "FixedBytes", "Bytes"}
CompositeKinds == {"Array", "FixedArray", "Tuple"}

FT_uint8 == Primitive(PT_Uint(8))
FT_bytes == Primitive(PT_Bytes)
FT_address == Primitive(PT_Address)
FT_fixed == Primitive(PT_FixedBytes(MaxBytes))
FT_tuple_ab == Tuple(<<Field(FT_uint8, <<"a">>), Field(FT_uint8, <<"b">>)>>)

LeafTokens ==
    {Tok_Bytes(b) : b \in ByteStrings}
      \cup {Tok_FixedBytes(b) : b \in ByteStrings \ {<<>>}}
      \cup {Tok_Address(EAS_TRACKED_CONTRACT), Tok_Uint(0), Tok_Uint(255),
            Tok_Int(7), Tok_Bool(TRUE), Tok_String(<<"h", "i">>)}

ElemTokens == {Tok_Uint(7), Tok_Bytes(<<>>), Tok_Bool(FALSE)}

NestedElemTokens ==
    {Tok_Uint(7),
     Tok_Tuple(<<Tok_Uint(7), Tok_Uint(9)>>),
     Tok_Array(<<Tok_Uint(7)>>)}

CompositeTokens ==
    {Tok_Tuple(s) : s \in SeqsUpTo(ElemTokens, MaxElems)}
      \cup {Tok_Array(s) : s \in SeqsUpTo(ElemTokens, MaxElems)}
      \cup {Tok_Tuple(s) : s \in SeqsUpTo(NestedElemTokens, MaxElems)}
      \cup {Tok_Array(s) : s \in SeqsUpTo(NestedElemTokens, MaxElems)}
      \cup {Tok_FixedArray(<<Tok_Uint(7)>>)}

Tokens == LeafTokens \cup CompositeTokens

PrimitiveFTs == {FT_uint8, FT_bytes, FT_address, FT_fixed}

FlatFields ==
    {Field(p, n) : p \in {FT_uint8, FT_bytes}, n \in {<<"a">>, kw_field}}

NestedFields ==
    {Field(FT_uint8, <<"a">>),
     Field(FT_tuple_ab, kw_field),
     Field(Array(FT_uint8), <<"b">>)}

CompositeFTs ==
    {Tuple(fs) : fs \in SeqsUpTo(FlatFields, MaxElems)}
      \cup {Tuple(fs) : fs \in SeqsUpTo(NestedFields, MaxElems)}
      \cup {Array(e) : e \in PrimitiveFTs \cup {FT_tuple_ab, Array(FT_uint8)}}
      \cup {Tuple(parse_schema_fields(ExampleComma).v)}

FieldTypes == PrimitiveFTs \cup CompositeFTs

NotProjected == [k |-> "None"]

IdleProject ==
    /\ fieldType = FT_uint8
    /\ tokenIn = Tok_Uint(0)
    /\ jpc = "idle"
    /\ json = NotProjected

InitProject ==
    /\ fieldType \in FieldTypes
    /\ tokenIn \in Tokens
    /\ jpc = "input"
    /\ json = NotProjected

\* schema_parser::token_to_json_with_schema(&ft, &token)
Project ==
    /\ jpc = "input"
    /\ json' = token_to_json_with_schema(fieldType, tokenIn)
    /\ jpc' = "projected"
    /\ UNCHANGED <<fieldType, tokenIn>>
    /\ UNCHANGED <<parseVars, blockVars>>

\* lib.rs token_to_json(&token): the field's type is not looked at
ProjectLeaf ==
    /\ jpc = "input"
    /\ json' = lib_token_to_json(tokenIn)
    /\ jpc' = "leaf"
    /\ UNCHANGED <<fieldType, tokenIn>>
    /\ UNCHANGED <<parseVars, blockVars>>

\* lib.rs bytes_to_hex(bytes) of a byte valued tokenIn
BytesToHex ==
    /\ jpc = "input"
    /\ tokenIn.k \in ByteKinds
    /\ json' = JString(bytes_to_hex(tokenIn.bytes))
    /\ jpc' = "hex"
    /\ UNCHANGED <<fieldType, tokenIn>>
    /\ UNCHANGED <<parseVars, blockVars>>


----------------------------------------------------------------------------
(* Spec: map_events on one block.  The chain the eth_calls read is input:  *)
(* the schema registry maps a schema id to its text, and the record the    *)
(* tracked contract stores under an Attested event's uid carries the       *)
(* schema id the event announces and some payload.                         *)

SchemaIds == {"A", "B", "C"}

\* the registered schema texts: "uint8,uint8 b", the empty schema, and
\* "tuple(uint8 a, uint8 b) t, uint8 c"
SchemaRegistry(sid) ==
    IF sid = "A" THEN ExampleNaming
    ELSE IF sid = "B" THEN <<>>
    ELSE ExampleComma

\* a payload: the ABI encoding of a token list
Encoded(tokens) == [enc |-> tokens]

Payloads == {Encoded(<<>>), Encoded(<<Tok_Uint(7), Tok_Uint(9)>>)}

RECURSIVE TokenHasType(_, _)
TokenHasType(tok, pt) ==
    IF pt.t = "Tuple"
    THEN /\ tok.k = "Tuple"
         /\ Len(tok.items) = Len(pt.types)
         /\ \A i \in 1..Len(pt.types) : TokenHasType(tok.items[i], pt.types[i])
    ELSE IF pt.t = "Array"
    THEN /\ tok.k = "Array"
         /\ \A i \in 1..Len(tok.items) : TokenHasType(tok.items[i], pt.inner)
    ELSE tok.k = pt.t

\* ethabi::decode(&types, data): the tokens when data encodes a token list
\* of these types, an Err otherwise (too short, bad offset, truncated); an
\* empty type list decodes any data to no tokens
Decode(types, data) ==
    IF types = <<>> THEN Ok(<<>>)
    ELSE IF /\ Len(data.enc) = Len(types)
            /\ \A i \in 1..Len(types) : TokenHasType(data.enc[i], types[i])
    THEN Ok(data.enc)
    ELSE Err("decode", <<>>)

\* decode_data: Ok of the JSON map and whether "Failed to decode data" was
\* logged, or the Panic of parse_schema_fields
decode_data(data, schema_signature) ==
    LET fields == lib_parse_schema_fields(schema_signature) IN
    IF fields.r = "Panic" THEN Panic
    ELSE LET types == [i \in 1..Len(fields.v) |-> fields.v[i].ft]
             d == Decode(types, data)
             tokens == IF d.r = "Ok" THEN d.v ELSE <<>>
             n == Min(Len(fields.v), Len(tokens))
         IN  Ok([obj |-> InsertAll(EmptyMap,
                           [i \in 1..n |-> fields.v[i].name],
                           [i \in 1..n |-> lib_token_to_json(tokens[i])],
                           1),
                 logged |-> d.r # "Ok"])

\* some contract other than the tracked one
OTHER_CONTRACT == [i \in 1..AddressLen |-> 255]

\* what a log of the input block is: an Attested event of the tracked
\* contract for one of the schema ids, another event of the tracked
\* contract, or an Attested-shaped log of a foreign contract
LogKinds == SchemaIds \cup {"other_event", "foreign"}

\* the log at block position i; uids are unique, so the position is the uid
MkLog(kind, i) ==
    [address |-> IF kind = "foreign" THEN OTHER_CONTRACT ELSE EAS_TRACKED_CONTRACT,
     block_index |-> i,
     attested |-> kind # "other_event",
     uid |-> i,
     schema |-> IF kind \in SchemaIds THEN kind ELSE "A",
     attester |-> "attester",
     recipient |-> "recipient"]

\* the receipts of a block with logs of kinds ks, log i belonging to
\* transaction txOf[i]
MkBlock(ks, txOf, ntx) ==
    [t \in 1..ntx |->
        [hash |-> t,
         logs |-> LET mine == SelectSeq([i \in 1..Len(ks) |-> i],
                                        LAMBDA i : txOf[i] = t)
                  IN  [j \in 1..Len(mine) |-> MkLog(ks[mine[j]], mine[j])]]]

NonDecreasing(f) == \A i \in 1..(Len(f) - 1) : f[i] <= f[i + 1]

Blocks ==
    UNION { { MkBlock(ks, txOf, ntx) :
                ks \in [1..n -> LogKinds],
                txOf \in {f \in [1..n -> 1..ntx] : NonDecreasing(f)} } :
            n \in 0..MaxLogs, ntx \in 1..MaxTx }

\* an eth_call as the call interface sees it, and whether it was answered
\* (Some) or failed (None)
Call(fn, to, arg, ok) == [fn |-> fn, to |-> to, arg |-> arg, ok |-> ok]

\* Attested::match_and_decode(log)
match_and_decode(log) ==
    IF log.attested
    THEN [some |-> TRUE, uid |-> log.uid, schema |-> log.schema,
          attester |-> log.attester, recipient |-> log.recipient]
    ELSE [some |-> FALSE]

\* the filter and the filter_map test of map_eas_events
Matches(log) ==
    log.address = EAS_TRACKED_CONTRACT /\ match_and_decode(log).some

\* the contract::EasAttested the closure returns (block time and number,
\* the same for every record of a block, are left out)
EasAttested(view, log, event, attestation, schema, decoded_json) ==
    [evt_tx_hash |-> view.hash,
     evt_index |-> log.block_index,
     attester |-> event.attester,
     recipient |-> event.recipient,
     schema_id |-> event.schema,
     uid |-> event.uid,
     data |-> attestation.data,
     schema |-> schema,
     decoded_data |-> decoded_json]

\* a collect that yields the newest record first
Collect_Reversed(out, rec) == <<rec>> \o out

\* collect(): the records in the order the iterator yields them
Collect(out, rec) == Append(out, rec)

\* a panic of the handler, with the message of the expect / panic! that fired
HandlerPanic(msg) == [r |-> "Panic", msg |-> msg]

IdleBlock ==
    /\ blk = <<>>
    /\ txi = 0
    /\ lgi = 0
    /\ events = <<>>
    /\ calls = <<>>
    /\ decodeErrs = {}
    /\ pc = "idle"
    /\ ret = [r |-> "None"]

InitBlock ==
    /\ blk \in Blocks
    /\ txi = 1
    /\ lgi = 1
    /\ events = <<>>
    /\ calls = <<>>
    /\ decodeErrs = {}
    /\ pc = "running"
    /\ ret = [r |-> "None"]

AtLog == pc = "running" /\ txi <= Len(blk) /\ lgi <= Len(blk[txi].logs)

CurLog == blk[txi].logs[lgi]

\* a log the filter or match_and_decode rejects: the closure yields None
SkipLog ==
    /\ AtLog
    /\ ~Matches(CurLog)
    /\ lgi' = lgi + 1
    /\ UNCHANGED <<blk, txi, events, calls, decodeErrs, pc, ret>>
    /\ UNCHANGED <<parseVars, projectVars>>

\* the closure on an Attested log when both calls answer: GetAttestation,
\* GetSchema, decode_data, and the record joins the collected ones; a panic
\* of decode_data ends the handler
ProcessAttested ==
    /\ AtLog
    /\ Matches(CurLog)
    /\ \E data \in Payloads :
         LET log == CurLog
             event == match_and_decode(log)
             attestation == [uid |-> event.uid, schema |-> event.schema,
                             data |-> data]
             schema == SchemaRegistry(attestation.schema)
             d == decode_data(attestation.data, schema)
         IN  /\ calls' = calls \o
                   <<Call("GetAttestation", EAS_TRACKED_CONTRACT, event.uid, TRUE),
                     Call("GetSchema", EAS_SCHEMA_REGISTRY_CONTRACT,
                          attestation.schema, TRUE)>>
             /\ IF d.r = "Panic"
                THEN /\ pc' = "panicked"
                     /\ ret' = HandlerPanic("Unsupported type")
                     /\ UNCHANGED <<events, decodeErrs, lgi>>
                ELSE /\ events' = Collect(events,
                            EasAttested(blk[txi], log, event, attestation,
                                        schema, JObject(d.v.obj)))
                     /\ decodeErrs' = IF d.v.logged
                                      THEN decodeErrs \cup {event.uid}
                                      ELSE decodeErrs
                     /\ lgi' = lgi + 1
                     /\ UNCHANGED <<pc, ret>>
    /\ UNCHANGED <<blk, txi>>
    /\ UNCHANGED <<parseVars, projectVars>>

\* the GetAttestation call gives None: expect("failed to get attestation")
GetAttestationFails ==
    /\ AtLog
    /\ Matches(CurLog)
    /\ calls' = Append(calls,
           Call("GetAttestation", EAS_TRACKED_CONTRACT, CurLog.uid, FALSE))
    /\ pc' = "panicked"
    /\ ret' = HandlerPanic("failed to get attestation")
    /\ UNCHANGED <<blk, txi, lgi, events, decodeErrs>>
    /\ UNCHANGED <<parseVars, projectVars>>

\* the GetSchema call gives None: expect("failed to get schema")
GetSchemaFails ==
    /\ AtLog
    /\ Matches(CurLog)
    /\ calls' = calls \o
           <<Call("GetAttestation", EAS_TRACKED_CONTRACT, CurLog.uid, TRUE),
             Call("GetSchema", EAS_SCHEMA_REGISTRY_CONTRACT, CurLog.schema,
                  FALSE)>>
    /\ pc' = "panicked"
    /\ ret' = HandlerPanic("failed to get schema")
    /\ UNCHANGED <<blk, txi, lgi, events, decodeErrs>>
    /\ UNCHANGED <<parseVars, projectVars>>

\* flat_map: the logs of this receipt are done, on to the next receipt
NextReceipt ==
    /\ pc = "running"
    /\ txi <= Len(blk)
    /\ lgi > Len(blk[txi].logs)
    /\ txi' = txi + 1
    /\ lgi' = 1
    /\ UNCHANGED <<blk, events, calls, decodeErrs, pc, ret>>
    /\ UNCHANGED <<parseVars, projectVars>>

\* every receipt is done: eas_attesteds gets the collected records and
\* map_events returns Ok(events)
Return ==
    /\ pc = "running"
    /\ txi > Len(blk)
    /\ pc' = "returned"
    /\ ret' = Ok(events)
    /\ UNCHANGED <<blk, txi, lgi, events, calls, decodeErrs>>
    /\ UNCHANGED <<parseVars, projectVars>>

----------------------------------------------------------------------------
(* The specifications *)

Init == InitBlock /\ IdleParse /\ IdleProject

Next ==
    \/ SkipLog
    \/ ProcessAttested
    \/ GetAttestationFails
    \/ GetSchemaFails
    \/ NextReceipt
    \/ Return

Spec == Init /\ [][Next]_vars

InitP == InitParse /\ IdleProject /\ IdleBlock
NextP == ParseSchema \/ LibParseSchema
SpecParse == InitP /\ [][NextP]_vars

InitJ == InitProject /\ IdleParse /\ IdleBlock
NextJ == Project \/ ProjectLeaf \/ BytesToHex
SpecProject == InitJ /\ [][NextJ]_vars

----------------------------------------------------------------------------
(* Properties of the block handler (Spec) *)

RECURSIVE Flatten(_)
Flatten(receipts) ==
    IF receipts = <<>> THEN <<>>
    ELSE Head(receipts).logs \o Flatten(Tail(receipts))

\* the matching Attested event stubs of the block, in transaction order and
\* then log order
Stubs == SelectSeq(Flatten(blk), Matches)

IsGetAttestation(c) == c.fn = "GetAttestation"
IsGetSchema(c) == c.fn = "GetSchema"
AttestationCalls == SelectSeq(calls, IsGetAttestation)
SchemaCalls == SelectSeq(calls, IsGetSchema)

StubSchemaIds == {Stubs[i].schema : i \in 1..Len(Stubs)}

\* C1: when a block has been processed, one record fetch was issued per
\* matching stub, at most as many schema fetches as the stubs have distinct
\* schema ids, and no schema id was fetched twice.
C1_FetchesDeduplicated ==
    pc = "returned" =>
        /\ Len(AttestationCalls) = Len(Stubs)
        /\ Len(SchemaCalls) <= Cardinality(StubSchemaIds)
        /\ \A i, j \in 1..Len(SchemaCalls) :
               i # j => SchemaCalls[i].arg # SchemaCalls[j].arg

\* the projections decode_data gives for a payload that decodes against its
\* schema, over the registered schemas and the payloads
SuccessProjections ==
    { JObject(decode_data(x[2], SchemaRegistry(x[1])).v.obj) :
        x \in { y \in SchemaIds \X Payloads :
                  LET d == decode_data(y[2], SchemaRegistry(y[1]))
                  IN  d.r = "Ok" /\ ~d.v.logged } }

\* C2: a record whose payload could not be decoded is still emitted, the
\* block is processed to the end, and what the record carries in place of
\* its projection is an error marker: no successfully decoded record has it
\* as its projection.
C2_DecodeErrorMarked ==
    pc = "returned" =>
        /\ Len(ret.v) = Len(Stubs)
        /\ \A i \in 1..Len(ret.v) :
               ret.v[i].uid \in decodeErrs =>
                   ret.v[i].decoded_data \notin SuccessProjections

\* the part of C2 the marker does not enter: a record whose payload could
\* not be decoded is among the records returned
C2_RecordKept ==
    pc = "returned" =>
        /\ Len(ret.v) = Len(Stubs)
        /\ \A u \in decodeErrs : \E i \in 1..Len(ret.v) : ret.v[i].uid = u

CallFailed == \E i \in 1..Len(calls) : ~calls[i].ok

\* C3: when an eth_call fails, the handler ends by returning a typed error
\* to its caller; it does not panic, and the failed call is not issued again.
C3_CallFailureReturned ==
    CallFailed =>
        /\ pc = "returned"
        /\ ret.r = "Err"
        /\ ~calls[Len(calls)].ok
        /\ \A i \in 1..(Len(calls) - 1) : calls[i].ok

\* C4: a block processed to the end yields exactly one record per matching
\* stub, and the records carry the stubs' uids (and log indices) in the
\* stubs' order.
C4_OrderPreserved ==
    pc = "returned" =>
        /\ ret.r = "Ok"
        /\ Len(ret.v) = Len(Stubs)
        /\ \A i \in 1..Len(ret.v) :
               /\ ret.v[i].uid = Stubs[i].uid
               /\ ret.v[i].evt_index = Stubs[i].block_index

\* C4's case: a returned block with records from two transactions and a
\* skipped log among them
C4_Witness ==
    /\ pc = "returned"
    /\ Len(ret.v) >= 2
    /\ ret.v[1].evt_tx_hash # ret.v[Len(ret.v)].evt_tx_hash
    /\ Len(Flatten(blk)) > Len(ret.v)

----------------------------------------------------------------------------
(* Properties of the schema parsers (SpecParse) *)

Parsed == ppc \in {"parsed", "lib_parsed"}

\* tokens that are no type of the schema language: invalid widths and an
\* unknown name
BadTokens == {ty_uint7, ty_uint0, ty_int264, ty_bytes33, ty_foo}

Occurs(tok, s) ==
    \E i \in 1..(Len(s) - Len(tok) + 1) : SubSeq(s, i, i + Len(tok) - 1) = tok

Balanced(s) ==
    /\ Depth(s, Len(s)) = 0
    /\ \A i \in 1..Len(s) : Depth(s, i) >= 0

Malformed(s) == ~Balanced(s) \/ \E tok \in BadTokens : Occurs(tok, s)

\* C5: parsing a malformed schema text (unknown type token, invalid width,
\* unbalanced parentheses) ends in a typed error: not in a panic, and not
\* in a field list.
C5_MalformedIsTypedError ==
    (Parsed /\ Malformed(schemaText)) => parsed.r = "Err"

\* whether a parsed field's type is a tuple of n members / a primitive, for
\* the FieldType of schema_parser.rs and the ParamType of lib.rs
IsTupleOf(ty, n) ==
    IF ppc = "parsed"
    THEN ty.k = "Tuple" /\ Len(ty.fields) = n
    ELSE ty.t = "Tuple" /\ Len(ty.types) = n

IsPrimitive(ty) ==
    IF ppc = "parsed" THEN ty.k = "Primitive" ELSE ty.t \notin {"Tuple", "Array"}

\* the number of fields a split at the depth-0 commas gives: one per such
\* comma, and one more when text follows the last of them
TopLevelCommas(s) ==
    {i \in 1..Len(s) : s[i] = "," /\ Depth(s, i) = 0}

ExpectedFieldCount(s) ==
    LET cs == TopLevelCommas(s)
        last == IF cs = {} THEN 0 ELSE CHOOSE c \in cs : \A d \in cs : d <= c
    IN  Cardinality(cs) + (IF last < Len(s) THEN 1 ELSE 0)

\* C6: an accepted schema with balanced parentheses has one top-level field
\* per depth-0 comma plus the last field, and
\* "tuple(uint8 a, uint8 b) t, uint8 c" parses into exactly 2 top-level
\* fields: t, a tuple of 2, and c, a primitive.
C6_SplitAtDepthZero ==
    Parsed =>
        /\ (parsed.r = "Ok" /\ Balanced(schemaText)) =>
               Len(parsed.v) = ExpectedFieldCount(schemaText)
        /\ schemaText = ExampleComma =>
               /\ parsed.r = "Ok"
               /\ Len(parsed.v) = 2
               /\ parsed.v[1].name = <<"t">>
               /\ IsTupleOf(parsed.v[1].ft, 2)
               /\ parsed.v[2].name = <<"c">>
               /\ IsPrimitive(parsed.v[2].ft)

\* the name C7 gives a trimmed declaration: what follows its last space
\* outside parentheses, "field" when it has no such space
ExpectedName(decl) ==
    LET sp == {j \in 1..Len(decl) : decl[j] = " " /\ Depth(decl, j) = 0} IN
    IF sp = {} THEN kw_field
    ELSE LET j == CHOOSE x \in sp : \A y \in sp : y <= x IN
         SubSeq(decl, j + 1, Len(decl))

\* C7: the fields of an accepted schema are in declaration order, each named
\* by what follows the last top-level space of its declaration, "field" when
\* there is none; "uint8,uint8 b" gives the names "field" and "b", and the
\* unnamed "tuple(uint8 a, uint8 b)" is accepted with the name "field".
C7_FieldNames ==
    Parsed =>
        /\ parsed.r = "Ok" =>
               LET pieces == FieldPieces(schemaText) IN
               /\ Len(parsed.v) = Len(pieces)
               /\ \A n \in 1..Len(pieces) :
                      parsed.v[n].name = ExpectedName(Trim(pieces[n]))
        /\ schemaText = ExampleNaming =>
               /\ parsed.r = "Ok"
               /\ Len(parsed.v) = 2
               /\ parsed.v[1].name = kw_field
               /\ parsed.v[2].name = <<"b">>
        /\ schemaText = ty_tuple_ab =>
               /\ parsed.r = "Ok"
               /\ Len(parsed.v) = 1
               /\ parsed.v[1].name = kw_field

\* C6 and C7 read on schema_parser.rs alone
C6_SchemaParserOnly == ppc = "parsed" => C6_SplitAtDepthZero
C7_SchemaParserOnly == ppc = "parsed" => C7_FieldNames

----------------------------------------------------------------------------
(* Properties of the projection (SpecProject) *)

IsLowerHex(c) == \E h \in 1..16 : HexChars[h] = c

\* C8: a byte valued leaf of n >= 1 bytes projects to "0x" and 2n lowercase
\* hex characters, an empty one to the empty string.
C8_HexProjection ==
    (/\ jpc \in {"projected", "leaf"}
     /\ tokenIn.k \in ByteKinds
     /\ jpc = "projected" =>
            fieldType.k = "Primitive" /\ fieldType.p.t = tokenIn.k) =>
        /\ json.k = "String"
        /\ IF tokenIn.bytes = <<>>
           THEN json.s = <<>>
           ELSE /\ Len(json.s) = 2 + 2 * Len(tokenIn.bytes)
                /\ SubSeq(json.s, 1, 2) = kw_0x
                /\ \A i \in 3..Len(json.s) : IsLowerHex(json.s[i])

\* a Tuple field with a value that is no tuple, an Array field with a value
\* that is no array
Mismatch(f, t) ==
    \/ f.k = "Tuple" /\ t.k # "Tuple"
    \/ f.k = "Array" /\ t.k # "Array"

\* the mismatches C9 lists: those, and a Primitive field with a tuple or
\* array value
ListedMismatch(f, t) ==
    \/ Mismatch(f, t)
    \/ f.k = "Primitive" /\ t.k \in {"Tuple", "Array"}

\* j is what C9 says the pair (f, t) projects to: null for a listed
\* mismatch, otherwise an object / array whose members are, in turn, what
\* C9 says of their pairs
RECURSIVE AsC9Says(_, _, _)
AsC9Says(f, t, j) ==
    IF ListedMismatch(f, t) THEN j = JNull
    ELSE IF f.k = "Tuple"
    THEN /\ j.k = "Object"
         /\ \A key \in DOMAIN j.o :
                \E i \in 1..Min(Len(f.fields), Len(t.items)) :
                    /\ f.fields[i].name = key
                    /\ AsC9Says(f.fields[i].ft, t.items[i], j.o[key])
    ELSE IF f.k = "Array"
    THEN /\ j.k = "Array"
         /\ Len(j.a) = Len(t.items)
         /\ \A i \in 1..Len(t.items) : AsC9Says(f.inner, t.items[i], j.a[i])
    ELSE j # JNull

RECURSIVE AsAmended(_, _, _)
AsAmended(f, t, j) ==
    IF Mismatch(f, t) THEN j = JNull
    ELSE IF f.k = "Tuple"
    THEN /\ j.k = "Object"
         /\ \A key \in DOMAIN j.o :
                \E i \in 1..Min(Len(f.fields), Len(t.items)) :
                    /\ f.fields[i].name = key
                    /\ AsAmended(f.fields[i].ft, t.items[i], j.o[key])
    ELSE IF f.k = "Array"
    THEN /\ j.k = "Array"
         /\ Len(j.a) = Len(t.items)
         /\ \A i \in 1..Len(t.items) : AsAmended(f.inner, t.items[i], j.a[i])
    ELSE /\ j # JNull
         /\ t.k \in CompositeKinds =>
                j.k = "Array" /\ Len(j.a) = Len(t.items)

RECURSIVE StructMatch(_, _)
StructMatch(f, t) ==
    IF f.k = "Tuple"
    THEN /\ t.k = "Tuple"
         /\ Len(t.items) = Len(f.fields)
         /\ \A i \in 1..Len(f.fields) : StructMatch(f.fields[i].ft, t.items[i])
    ELSE IF f.k = "Array"
    THEN /\ t.k = "Array"
         /\ \A i \in 1..Len(t.items) : StructMatch(f.inner, t.items[i])
    ELSE t.k = f.p.t

\* j mirrors f: an object with one key per declared field of a tuple, an
\* array of the value's length for an array, at every depth
RECURSIVE Mirrors(_, _, _)
Mirrors(f, t, j) ==
    IF f.k = "Tuple"
    THEN /\ j.k = "Object"
         /\ Cardinality(DOMAIN j.o) = Len(f.fields)
         /\ DOMAIN j.o = {f.fields[i].name : i \in 1..Len(f.fields)}
         /\ \A i \in 1..Len(f.fields) :
                (\A m \in (i + 1)..Len(f.fields) :
                     f.fields[m].name # f.fields[i].name) =>
                    Mirrors(f.fields[i].ft, t.items[i], j.o[f.fields[i].name])
    ELSE IF f.k = "Array"
    THEN /\ j.k = "Array"
         /\ Len(j.a) = Len(t.items)
         /\ \A i \in 1..Len(t.items) : Mirrors(f.inner, t.items[i], j.a[i])
    ELSE TRUE

\* C10: the projection of a value tree matching its field tree mirrors the
\* field tree: k keys for a tuple of k fields, also when fields share the
\* default name "field", and arrays of the decoded length.
C10_ProjectionMirrorsSchema ==
    (jpc = "projected" /\ StructMatch(fieldType, tokenIn)) =>
        Mirrors(fieldType, tokenIn, json)

====
